---- MODULE Spec2Model ----
(***************************************************************************)
(* Model of replace_alerts.py: the two text transforms add_toast_import   *)
(* and replace_alerts, and the batch loop main / process_file over a      *)
(* filesystem.  Text is a sequence of one-character strings, so substring *)
(* tests, regular-expression matches and str.replace are computed on the  *)
(* characters as Python computes them.                                    *)
(***************************************************************************)
EXTENDS Integers, Sequences, FiniteSets, TLC

\* ---------------------------------------------------------------- bounds
\* Number of fragments an input text is concatenated from.
MaxFrags == 3
\* Number of transform applications in a row in the function-level spec.
MaxOps == 3
\* Length of the target file list in the batch spec.
MaxList == 2
\* Characters the buffered writer flushes to disk at a time.
WriteChunk == 16

Min(a, b) == IF a <= b THEN a ELSE b

\* ------------------------------------------------- Python string builtins
\* s[p:p+len(t)] == t, with 1-based p.
StartsWithAt(s, p, t) ==
    /\ p >= 1
    /\ p + Len(t) - 1 <= Len(s)
    /\ \A k \in 1..Len(t) : s[p + k - 1] = t[k]

\* Python's "t in s" for a non-empty t.
In(t, s) == \E p \in 1..Len(s) : StartsWithAt(s, p, t)

\* Lowest index >= from where t occurs in s, 0 when there is none (str.find).
RECURSIVE Find(_, _, _)
Find(s, t, from) ==
    IF from + Len(t) - 1 > Len(s) THEN 0
    ELSE IF StartsWithAt(s, from, t) THEN from
    ELSE Find(s, t, from + 1)

\* The ASCII upper-case letters with their lower-case forms.
ToLower ==
    [c \in {"A", "B", "C", "D", "E", "F", "G", "H", "I", "J", "K", "L", "M",
            "N", "O", "P", "Q", "R", "S", "T", "U", "V", "W", "X", "Y", "Z"} |->
        CASE c = "A" -> "a" [] c = "B" -> "b" [] c = "C" -> "c" [] c = "D" -> "d"
          [] c = "E" -> "e" [] c = "F" -> "f" [] c = "G" -> "g" [] c = "H" -> "h"
          [] c = "I" -> "i" [] c = "J" -> "j" [] c = "K" -> "k" [] c = "L" -> "l"
          [] c = "M" -> "m" [] c = "N" -> "n" [] c = "O" -> "o" [] c = "P" -> "p"
          [] c = "Q" -> "q" [] c = "R" -> "r" [] c = "S" -> "s" [] c = "T" -> "t"
          [] c = "U" -> "u" [] c = "V" -> "v" [] c = "W" -> "w" [] c = "X" -> "x"
          [] c = "Y" -> "y" [] c = "Z" -> "z"]

\* str.lower() on one character: upper-case letters map to lower case.
LowerChar(c) == IF c \in DOMAIN ToLower THEN ToLower[c] ELSE c

\* line.lower()
lower(s) == [i \in 1..Len(s) |-> LowerChar(s[i])]

\* content.split('\n'): the pieces between newlines; always at least one piece.
RECURSIVE split(_)
split(s) ==
    LET p == Find(s, <<"\n">>, 1) IN
    IF p = 0 THEN <<s>>
    ELSE <<SubSeq(s, 1, p - 1)>> \o split(SubSeq(s, p + 1, Len(s)))

\* '\n'.join(new_lines)
RECURSIVE join(_)
join(ls) ==
    IF Len(ls) = 0 THEN <<>>
    ELSE IF Len(ls) = 1 THEN ls[1]
    ELSE ls[1] \o <<"\n">> \o join(Tail(ls))

\* s.replace(old, new): every non-overlapping occurrence, left to right.
RECURSIVE str_replace(_, _, _)
str_replace(s, old, new) ==
    LET p == Find(s, old, 1) IN
    IF p = 0 THEN s
    ELSE SubSeq(s, 1, p - 1) \o new
         \o str_replace(SubSeq(s, p + Len(old), Len(s)), old, new)

\* ------------------------------------------------------ program constants
AlertOpen == <<"a", "l", "e", "r", "t", "(">>
CommentedAlert == <<"/", "/", " ", "a", "l", "e", "r", "t", "(">>
ToastSuccess == <<"t", "o", "a", "s", "t", ".", "s", "u", "c", "c", "e", "s", "s", "(">>
ToastError == <<"t", "o", "a", "s", "t", ".", "e", "r", "r", "o", "r", "(">>
ToastInfo == <<"t", "o", "a", "s", "t", ".", "i", "n", "f", "o", "(">>
CloseParen == <<")">>

success_keywords ==
    { <<"s", "u", "c", "c", "e", "s", "s">>,
      <<"u", "p", "d", "a", "t", "e", "d">>,
      <<"s", "a", "v", "e", "d">>,
      <<"c", "r", "e", "a", "t", "e", "d">>,
      <<"p", "o", "s", "t", "e", "d">>,
      <<"s", "u", "b", "m", "i", "t", "t", "e", "d">>,
      <<"c", "o", "p", "i", "e", "d">>,
      <<"c", "l", "o", "s", "e", "d">>,
      <<"d", "e", "p", "r", "e", "c", "i", "a", "t", "e", "d">> }

error_keywords ==
    { <<"f", "a", "i", "l">>,
      <<"e", "r", "r", "o", "r">>,
      <<"w", "a", "r", "n", "i", "n", "g">> }

ImportWord == <<"i", "m", "p", "o", "r", "t">>
ImportBraceToast == <<"i", "m", "p", "o", "r", "t", " ", "{", " ", "t", "o", "a", "s", "t", " ", "}">>
ImportToast == <<"i", "m", "p", "o", "r", "t", " ", "t", "o", "a", "s", "t">>
toast_import ==
    <<"\n", "i", "m", "p", "o", "r", "t", " ", "{", " ", "t", "o", "a", "s", "t", " ", "}",
      " ", "f", "r", "o", "m", " ", "'", ".", ".", "/", "s", "h", "a", "r", "e", "d", "/",
      "u", "t", "i", "l", "s", "/", "t", "o", "a", "s", "t", "'", ";">>

\* The characters the regular-expression class \s matches.
Whitespace == {" ", "\n", "\t", "\r", "\f"}

\* ------------------------------------------------------- add_toast_import
\* "^" under re.MULTILINE: at the start of the text or right after a newline.
AtLineStart(s, p) == p = 1 \/ s[p - 1] = "\n"

\* "$" under re.MULTILINE, tested at the position p that follows the match:
\* at the end of the text or right before a newline.
AtLineEnd(s, p) == p = Len(s) + 1 \/ (p <= Len(s) /\ s[p] = "\n")

\* Length of the run of \s characters that starts at p.
RECURSIVE SpaceRun(_, _)
SpaceRun(s, p) ==
    IF p <= Len(s) /\ s[p] \in Whitespace THEN 1 + SpaceRun(s, p + 1) ELSE 0

\* ".*?;$" from position q: the lazy dot takes as few non-newline characters
\* as possible until a ";" that ends its line.  Index of that ";", else 0.
RECURSIVE LazySemicolon(_, _)
LazySemicolon(s, q) ==
    IF q > Len(s) THEN 0
    ELSE IF s[q] = ";" /\ AtLineEnd(s, q + 1) THEN q
    ELSE IF s[q] = "\n" THEN 0
    ELSE LazySemicolon(s, q + 1)

\* "\s+" is greedy: it first takes k = the whole run and gives characters
\* back one at a time until the rest of the pattern matches.
RECURSIVE GreedySpaces(_, _, _)
GreedySpaces(s, p, k) ==
    IF k < 1 THEN 0
    ELSE IF LazySemicolon(s, p + k) # 0 THEN LazySemicolon(s, p + k)
    ELSE GreedySpaces(s, p, k - 1)

\* import_pattern = r'^import\s+.*?;$' tried at position p: index of the
\* last character of the match, 0 when the pattern does not match there.
import_pattern(s, p) ==
    IF AtLineStart(s, p) /\ StartsWithAt(s, p, ImportWord)
    THEN GreedySpaces(s, p + Len(ImportWord), SpaceRun(s, p + Len(ImportWord)))
    ELSE 0

\* list(re.finditer(import_pattern, content, re.MULTILINE)) from position
\* pos on: the non-overlapping matches, left to right, as [start, end].
RECURSIVE finditer(_, _)
finditer(s, pos) ==
    IF pos > Len(s) THEN <<>>
    ELSE LET e == import_pattern(s, pos) IN
         IF e # 0 THEN <<[start |-> pos, end |-> e]>> \o finditer(s, e + 1)
         ELSE finditer(s, pos + 1)

\* Mutant of HasToastImport: the second spelling is not looked for.
HasBraceImportOnly(content) == In(ImportBraceToast, content)

\* Line 32: the two accepted spellings of an existing toast import.
HasToastImport(content) == In(ImportBraceToast, content) \/ In(ImportToast, content)

\* Mutant of InsertAfterLast: imports[0] in place of imports[-1].
InsertAfterFirst(content, imports) ==
    IF Len(imports) > 0
    THEN LET first_import == imports[1]
             insert_pos == first_import.end
         IN SubSeq(content, 1, insert_pos) \o toast_import
            \o SubSeq(content, insert_pos + 1, Len(content))
    ELSE content

\* Lines 39-43: insert toast_import right after the last match.
InsertAfterLast(content, imports) ==
    IF Len(imports) > 0
    THEN LET last_import == imports[Len(imports)]
             insert_pos == last_import.end
         IN SubSeq(content, 1, insert_pos) \o toast_import
            \o SubSeq(content, insert_pos + 1, Len(content))
    ELSE content

\* Mutant of add_toast_import: the early return of lines 32-33 is missing.
add_toast_import_unguarded(content) == InsertAfterLast(content, finditer(content, 1))

add_toast_import(content) ==
    IF HasToastImport(content) THEN content
    ELSE InsertAfterLast(content, finditer(content, 1))

\* --------------------------------------------------------- replace_alerts
\* Line 61: the line holds "alert(" and does not hold "// alert(" anywhere.
LineGuard(line) == In(AlertOpen, line) /\ ~In(CommentedAlert, line)

\* "(.*?)\)" from position q: the lazy dot stops at the first ")"; it never
\* consumes a newline.  Index of that ")", else 0.
RECURSIVE LazyClose(_, _)
LazyClose(line, q) ==
    IF q > Len(line) THEN 0
    ELSE IF line[q] = ")" THEN q
    ELSE IF line[q] = "\n" THEN 0
    ELSE LazyClose(line, q + 1)

\* re.search(r'alert\((.*?)\);?', line) from position p on: the leftmost
\* position where the pattern matches.
RECURSIVE re_search(_, _)
re_search(line, p) ==
    IF p > Len(line) THEN [found |-> FALSE, start |-> 0, close |-> 0]
    ELSE IF StartsWithAt(line, p, AlertOpen) /\ LazyClose(line, p + Len(AlertOpen)) # 0
    THEN [found |-> TRUE, start |-> p, close |-> LazyClose(line, p + Len(AlertOpen))]
    ELSE re_search(line, p + 1)

\* match.group(1)
group1(line, match) == SubSeq(line, match.start + Len(AlertOpen), match.close - 1)

\* Lines 68-69.
is_success(line) == \E keyword \in success_keywords : In(keyword, lower(line))
is_error(line) == \E keyword \in error_keywords : In(keyword, lower(line))

\* Mutant of ToastCall: success is tested first and wins over error.
ToastCallSuccessFirst(line) ==
    IF is_success(line) THEN ToastSuccess
    ELSE IF is_error(line) THEN ToastError
    ELSE ToastInfo

\* Lines 71-77: the toast call that replaces "alert(".
ToastCall(line) ==
    IF is_success(line) /\ ~is_error(line) THEN ToastSuccess
    ELSE IF is_error(line) THEN ToastError
    ELSE ToastInfo

\* Lines 63-81: the rewrite of a line that passed the guard.
RewriteLine(line) ==
    LET match == re_search(line, 1) IN
    IF match.found
    THEN LET message == group1(line, match)
         IN str_replace(line, AlertOpen \o message \o CloseParen,
                        ToastCall(line) \o message \o CloseParen)
    ELSE line

\* Lines 60-83: the body of the loop, for one line.
new_line(line) == IF LineGuard(line) THEN RewriteLine(line) ELSE line

replace_alerts(content) ==
    LET lines == split(content)
        new_lines == [i \in 1..Len(lines) |-> new_line(lines[i])]
    IN join(new_lines)

\* ------------------------------------------------------------ input texts
\* Texts are concatenations of at most MaxFrags fragments of one family.
\* Call-site family: two calls with different arguments, an unclosed call,
\* a closing parenthesis, a comment marker, one error and one success
\* keyword in mixed case, and the line break.
AlertFrags ==
    { <<"a", "l", "e", "r", "t", "(", "'", "a", "'", ")">>,
      <<"a", "l", "e", "r", "t", "(", "\"", "b", "\"", ")">>,
      <<"a", "l", "e", "r", "t", "(">>,
      <<")">>,
      <<"/", "/", " ">>,
      <<"F", "a", "i", "l">>,
      <<"S", "a", "v", "e", "d">>,
      <<"\n">> }

\* Import family: a complete import line, the bare keyword, a blank, the
\* line break, a statement, both spellings of the toast import, and a call.
ImportFrags ==
    { <<"i", "m", "p", "o", "r", "t", " ", "x", ";">>,
      <<"i", "m", "p", "o", "r", "t">>,
      <<" ">>,
      <<"\n">>,
      <<"x", ";">>,
      <<"i", "m", "p", "o", "r", "t", " ", "t", "o", "a", "s", "t">>,
      <<"i", "m", "p", "o", "r", "t", " ", "{", " ", "t", "o", "a", "s", "t", " ", "}">>,
      <<"a", "l", "e", "r", "t", "(", "'", "a", "'", ")">> }

RECURSIVE Concat(_, _)
Concat(frags, n) ==
    IF n = 0 THEN {<<>>}
    ELSE LET shorter == Concat(frags, n - 1)
         IN shorter \cup {t \o f : t \in shorter, f \in frags}

ImportInputs == Concat(ImportFrags, MaxFrags)

Inputs == Concat(AlertFrags, MaxFrags) \cup ImportInputs

\* ------------------------------------------------------------------ state
VARIABLES
    input,            \* function level: the text the transforms started from
    text,             \* function level: the current text
    prev,             \* function level: the text before the last application
    ops,              \* function level: the transforms applied so far, in order
    files_to_update,  \* the target list (line 11)
    fs,               \* the filesystem: path -> [exists, data]
    idx,              \* position of the for loop of main in files_to_update
    pc,               \* the statement main / process_file is at
    content,          \* the local variable content of process_file
    success_count,    \* the counter of main
    log,              \* standard output, one record per printed line
    orig,             \* history: fs[filepath] when the current call began
    calls             \* history: one record per returned process_file call

fnVars == <<input, text, prev, ops>>
runVars == <<files_to_update, fs, idx, pc, content, success_count, log, orig, calls>>
vars == <<input, text, prev, ops, files_to_update, fs, idx, pc, content,
          success_count, log, orig, calls>>

\* ------------------------------------------------ function-level machines
Paths == {"A.tsx", "B.tsx"}
NoFile == [exists |-> FALSE, data |-> <<>>]
File(c) == [exists |-> TRUE, data |-> c]

RunIdle ==
    /\ files_to_update = <<>>
    /\ fs = [p \in Paths |-> NoFile]
    /\ idx = 1
    /\ pc = "idle"
    /\ content = <<>>
    /\ success_count = 0
    /\ log = <<>>
    /\ orig = NoFile
    /\ calls = <<>>

\* replace_alerts alone, on every input text.
InitReplace ==
    /\ input \in Inputs
    /\ text = input
    /\ prev = input
    /\ ops = <<>>
    /\ RunIdle

\* Both transforms, in any order, on the texts of the import family.
InitFn ==
    /\ input \in ImportInputs
    /\ text = input
    /\ prev = input
    /\ ops = <<>>
    /\ RunIdle

\* content = add_toast_import(content)
ApplyImport ==
    /\ Len(ops) < MaxOps
    /\ prev' = text
    /\ text' = add_toast_import(text)
    /\ ops' = Append(ops, "add_toast_import")
    /\ UNCHANGED input
    /\ UNCHANGED runVars

\* content = replace_alerts(content)
ApplyReplace ==
    /\ Len(ops) < MaxOps
    /\ prev' = text
    /\ text' = replace_alerts(text)
    /\ ops' = Append(ops, "replace_alerts")
    /\ UNCHANGED input
    /\ UNCHANGED runVars

NextReplace == ApplyReplace

SpecReplace == InitReplace /\ [][NextReplace]_vars

NextFn == ApplyImport \/ ApplyReplace

SpecFn == InitFn /\ [][NextFn]_vars

\* ----------------------------------------------------------- batch machine
\* Contents a target file can start with: an import followed by a call, two
\* calls on one line, a file that already imports toast, a file with
\* neither imports nor calls.
RunContents ==
    { <<"i", "m", "p", "o", "r", "t", " ", "x", ";", "\n",
        "a", "l", "e", "r", "t", "(", "'", "a", "'", ")">>,
      <<"a", "l", "e", "r", "t", "(", "'", "a", "'", ")",
        "a", "l", "e", "r", "t", "(", "\"", "b", "\"", ")">>,
      <<"i", "m", "p", "o", "r", "t", " ", "t", "o", "a", "s", "t", "\n",
        "S", "a", "v", "e", "d", "a", "l", "e", "r", "t", "(", ")">>,
      <<"x", ";">> }

FnIdle ==
    /\ input = <<>>
    /\ text = <<>>
    /\ prev = <<>>
    /\ ops = <<>>

Init ==
    /\ files_to_update \in UNION {[1..n -> Paths] : n \in 0..MaxList}
    /\ fs \in [Paths -> {NoFile} \cup {File(c) : c \in RunContents}]
    /\ idx = 1
    /\ pc = "main"
    /\ content = <<>>
    /\ success_count = 0
    /\ log = <<>>
    /\ orig = NoFile
    /\ calls = <<>>
    /\ FnIdle

filepath == files_to_update[idx]

\* print(...) of lines 102, 105 and 117.
Printed(kind, why) == Append(log, [kind |-> kind, path |-> filepath, why |-> why])

\* Lines 104-106: an exception raised at stage `why` is printed and
\* process_file returns False; main goes on with the next entry.
Except(why) ==
    /\ log' = Printed("error", why)
    /\ calls' = Append(calls, [path |-> filepath, before |-> orig, ret |-> FALSE, why |-> why])
    /\ idx' = idx + 1
    /\ pc' = "for"
    /\ content' = <<>>
    /\ UNCHANGED <<success_count, files_to_update, orig>>

\* Lines 109-110.
Start ==
    /\ pc = "main"
    /\ pc' = "for"
    /\ log' = Append(log, [kind |-> "starting", path |-> "", why |-> ""])
    /\ success_count' = 0
    /\ UNCHANGED <<files_to_update, fs, idx, content, orig, calls>>
    /\ UNCHANGED fnVars

\* Lines 112-114: the entry exists, process_file is called.
FileFound ==
    /\ pc = "for"
    /\ idx <= Len(files_to_update)
    /\ fs[filepath].exists
    /\ pc' = "read"
    /\ orig' = fs[filepath]
    /\ UNCHANGED <<files_to_update, fs, idx, content, success_count, log, calls>>
    /\ UNCHANGED fnVars

\* Mutant of FileNotFound: the missing entry is counted as a success.
FileNotFoundCounted ==
    /\ pc = "for"
    /\ idx <= Len(files_to_update)
    /\ ~fs[filepath].exists
    /\ log' = Printed("not_found", "")
    /\ idx' = idx + 1
    /\ success_count' = success_count + 1
    /\ UNCHANGED <<files_to_update, fs, pc, content, orig, calls>>
    /\ UNCHANGED fnVars

\* Lines 116-117: the entry does not exist.
FileNotFound ==
    /\ pc = "for"
    /\ idx <= Len(files_to_update)
    /\ ~fs[filepath].exists
    /\ log' = Printed("not_found", "")
    /\ idx' = idx + 1
    /\ UNCHANGED <<files_to_update, fs, pc, content, success_count, orig, calls>>
    /\ UNCHANGED fnVars

\* Lines 90-91, the read succeeds.
ReadOk ==
    /\ pc = "read"
    /\ content' = fs[filepath].data
    /\ pc' = "add_toast_import"
    /\ UNCHANGED <<files_to_update, fs, idx, success_count, log, orig, calls>>
    /\ UNCHANGED fnVars

\* Mutant of ReadError: the exception is not caught and leaves main.
ReadErrorPropagates ==
    /\ pc = "read"
    /\ pc' = "raised"
    /\ UNCHANGED <<files_to_update, fs, idx, content, success_count, log, orig, calls>>
    /\ UNCHANGED fnVars

\* Lines 90-91, open or read raises (IOError, UnicodeDecodeError).
ReadError ==
    /\ pc = "read"
    /\ Except("read")
    /\ UNCHANGED fs
    /\ UNCHANGED fnVars

\* Line 94.
AddImport ==
    /\ pc = "add_toast_import"
    /\ content' = add_toast_import(content)
    /\ pc' = "replace_alerts"
    /\ UNCHANGED <<files_to_update, fs, idx, success_count, log, orig, calls>>
    /\ UNCHANGED fnVars

\* Line 97.
ReplaceAlerts ==
    /\ pc = "replace_alerts"
    /\ content' = replace_alerts(content)
    /\ pc' = "write"
    /\ UNCHANGED <<files_to_update, fs, idx, success_count, log, orig, calls>>
    /\ UNCHANGED fnVars

\* Mutant of TransformError: the file was opened for writing, and so
\* truncated, before the transforms ran.
TransformErrorAfterOpen ==
    /\ pc \in {"add_toast_import", "replace_alerts"}
    /\ Except("transform")
    /\ fs' = [fs EXCEPT ![filepath] = File(<<>>)]
    /\ UNCHANGED fnVars

\* Lines 94-97 raise (an Exception such as MemoryError inside a transform).
TransformError ==
    /\ pc \in {"add_toast_import", "replace_alerts"}
    /\ Except("transform")
    /\ UNCHANGED fs
    /\ UNCHANGED fnVars

\* Lines 99-103 and 114-115: the write succeeds, "Processed" is printed,
\* process_file returns True and main counts it.
WriteOk ==
    /\ pc = "write"
    /\ fs' = [fs EXCEPT ![filepath] = File(content)]
    /\ log' = Printed("processed", "")
    /\ calls' = Append(calls, [path |-> filepath, before |-> orig, ret |-> TRUE, why |-> ""])
    /\ success_count' = success_count + 1
    /\ idx' = idx + 1
    /\ pc' = "for"
    /\ content' = <<>>
    /\ UNCHANGED <<files_to_update, orig>>
    /\ UNCHANGED fnVars

\* Line 99 raises: open(filepath, 'w') fails and the file is not touched.
WriteOpenError ==
    /\ pc = "write"
    /\ Except("open_w")
    /\ UNCHANGED fs
    /\ UNCHANGED fnVars

\* Line 100 raises: open(filepath, 'w') has truncated the file, and the
\* buffered writer fails after flushing k whole chunks of content (none,
\* some or all of them: a failing close comes after the last flush).
WriteError ==
    /\ pc = "write"
    /\ \E k \in 0..((Len(content) + WriteChunk - 1) \div WriteChunk) :
          fs' = [fs EXCEPT ![filepath] = File(SubSeq(content, 1, Min(k * WriteChunk, Len(content))))]
    /\ Except("write")
    /\ UNCHANGED fnVars

\* Line 119: the loop is over, the summary is printed.
Summary ==
    /\ pc = "for"
    /\ idx > Len(files_to_update)
    /\ log' = Append(log, [kind |-> "completed", path |-> "", why |-> "",
                           X |-> success_count, N |-> Len(files_to_update)])
    /\ pc' = "done"
    /\ UNCHANGED <<files_to_update, fs, idx, content, success_count, orig, calls>>
    /\ UNCHANGED fnVars

Next ==
    \/ Start
    \/ FileNotFound
    \/ FileFound
    \/ ReadError
    \/ ReadOk
    \/ TransformError
    \/ AddImport
    \/ ReplaceAlerts
    \/ WriteOpenError
    \/ WriteError
    \/ WriteOk
    \/ Summary

Spec == Init /\ [][Next]_vars

\* main runs to completion: a step that can be taken is taken.
FairSpec == Spec /\ WF_vars(Next)

\* ------------------------------------------------- claims, function level
\* The last application was replace_alerts: prev is its input, text its output.
AfterReplace == Len(ops) >= 1 /\ ops[Len(ops)] = "replace_alerts"
\* The last application was add_toast_import.
AfterImport == Len(ops) >= 1 /\ ops[Len(ops)] = "add_toast_import"

\* Some word of the set occurs in the line, compared in lower case.
HasWord(words, line) ==
    \E w \in words : \E p \in 1..Len(line) :
        /\ p + Len(w) - 1 <= Len(line)
        /\ \A k \in 1..Len(w) : LowerChar(line[p + k - 1]) = w[k]

ErrorWords ==
    { <<"f", "a", "i", "l">>, <<"e", "r", "r", "o", "r">>,
      <<"w", "a", "r", "n", "i", "n", "g">> }
SuccessWords ==
    { <<"s", "u", "c", "c", "e", "s", "s">>, <<"u", "p", "d", "a", "t", "e", "d">>,
      <<"s", "a", "v", "e", "d">>, <<"c", "r", "e", "a", "t", "e", "d">>,
      <<"p", "o", "s", "t", "e", "d">>, <<"s", "u", "b", "m", "i", "t", "t", "e", "d">>,
      <<"c", "o", "p", "i", "e", "d">>, <<"c", "l", "o", "s", "e", "d">>,
      <<"d", "e", "p", "r", "e", "c", "i", "a", "t", "e", "d">> }

\* C1: replace_alerts is idempotent: applied to its own output it returns
\* that output unchanged.
C1_Idempotent ==
    (Len(ops) >= 2 /\ ops[Len(ops)] = "replace_alerts"
                   /\ ops[Len(ops) - 1] = "replace_alerts")
        => text = prev

\* The calls alert("...") with a double-quoted literal on a line, as
\* <<index of "alert(", index of the closing quote>>.
QuotedCalls(line) ==
    { pq \in (1..Len(line)) \X (1..Len(line)) :
        /\ StartsWithAt(line, pq[1], AlertOpen \o <<"\"">>)
        /\ pq[2] >= pq[1] + 7
        /\ line[pq[2]] = "\""
        /\ \A k \in (pq[1] + 7)..(pq[2] - 1) : line[k] # "\""
        /\ pq[2] < Len(line)
        /\ line[pq[2] + 1] = ")" }

LineComment == <<"/", "/">>

\* C2: every line that holds alert("literal") and no success or error
\* keyword comes out holding toast.info("literal") and no "alert(" at all.
\* The claim is read in its favour: lines with a comment marker, where the
\* comment guard may apply, are left out.
C2_InfoNoAlertLeft ==
    AfterReplace =>
        LET old == split(prev)
            new == split(text)
        IN /\ Len(new) = Len(old)
           /\ \A i \in 1..Len(old) : \A pq \in QuotedCalls(old[i]) :
                (/\ ~HasWord(ErrorWords, old[i])
                 /\ ~HasWord(SuccessWords, old[i])
                 /\ ~In(LineComment, old[i]))
                => /\ In(ToastInfo \o SubSeq(old[i], pq[1] + 6, pq[2] + 1), new[i])
                   /\ ~In(AlertOpen, new[i])

\* C3: on every line replace_alerts rewrites, the first alert(X) becomes
\* toast.error(X) when the line holds an error word (also next to a success
\* word), else toast.success(X) when it holds a success word, else
\* toast.info(X); X and the text before the call are carried over unchanged.
C3_Severity ==
    AfterReplace =>
        LET old == split(prev)
            new == split(text)
        IN /\ Len(new) = Len(old)
           /\ \A i \in 1..Len(old) : new[i] # old[i] =>
                LET line == old[i]
                    p == Find(line, AlertOpen, 1)
                    q == Find(line, CloseParen, p + 6)
                    X == SubSeq(line, p + 6, q - 1)
                    call == IF HasWord(ErrorWords, line) THEN ToastError
                            ELSE IF HasWord(SuccessWords, line) THEN ToastSuccess
                            ELSE ToastInfo
                IN /\ p # 0
                   /\ q # 0
                   /\ StartsWithAt(new[i], 1,
                          SubSeq(line, 1, p - 1) \o call \o X \o CloseParen)

\* A rewritten line that holds both an error and a success word, with the
\* call turned into toast.error.
C3_Witness ==
    /\ AfterReplace
    /\ \E i \in 1..Len(split(prev)) :
          /\ split(text)[i] # split(prev)[i]
          /\ HasWord(ErrorWords, split(prev)[i])
          /\ HasWord(SuccessWords, split(prev)[i])
          /\ In(ToastError, split(text)[i])

\* The "alert(" at index p of the line is not commented out: "// " does not
\* stand right before it.
Uncommented(line, p) ==
    /\ StartsWithAt(line, p, AlertOpen)
    /\ ~StartsWithAt(line, p - 3, CommentedAlert)

\* The "alert(" at index p is live code: no comment marker stands anywhere
\* before it on the line.
LiveCall(line, p) ==
    /\ StartsWithAt(line, p, AlertOpen)
    /\ \A c \in 1..(p - 1) : ~StartsWithAt(line, c, LineComment)

\* C4: a line whose every "alert(" has "// " right before it is returned
\* unchanged, and a line with a live alert( call whose argument can be
\* extracted is rewritten, also when a commented-out "// alert(" follows
\* on the same line.
C4_CommentGuard ==
    AfterReplace =>
        LET old == split(prev)
            new == split(text)
        IN /\ Len(new) = Len(old)
           /\ \A i \in 1..Len(old) :
                /\ (\A p \in 1..Len(old[i]) : ~Uncommented(old[i], p))
                       => new[i] = old[i]
                /\ (\E p \in 1..Len(old[i]) :
                        LiveCall(old[i], p) /\ Find(old[i], CloseParen, p + 6) # 0)
                       => new[i] # old[i]

\* C5: a content that already holds "import { toast }" or "import toast",
\* anywhere, is returned by add_toast_import unchanged.
C5_ExistingImportKept ==
    (AfterImport /\ (In(ImportBraceToast, prev) \/ In(ImportToast, prev)))
        => text = prev

\* A content with the second spelling only and a line the import pattern
\* matches, returned as it was.
C5_Witness ==
    /\ AfterImport
    /\ In(ImportToast, prev)
    /\ ~In(ImportBraceToast, prev)
    /\ \E i \in 1..Len(split(prev)) :
          /\ StartsWithAt(split(prev)[i], 1, ImportWord \o <<" ">>)
          /\ split(prev)[i][Len(split(prev)[i])] = ";"
    /\ text = prev

\* The line, on its own, has the shape "import <anything>;" : "import" at
\* its start, then white space, and ";" as its last character.
LineMatches(line) ==
    /\ StartsWithAt(line, 1, ImportWord)
    /\ Len(line) >= Len(ImportWord) + 2
    /\ line[Len(ImportWord) + 1] \in Whitespace
    /\ line[Len(line)] = ";"

\* The lines with line l put in after the first m of them.
InsertLine(ls, m, l) == SubSeq(ls, 1, m) \o <<l>> \o SubSeq(ls, m + 1, Len(ls))

ToastLine == Tail(toast_import)

Largest(S) == CHOOSE m \in S : \A n \in S : n <= m

\* What the claim says add_toast_import returns when the lines in ends are
\* the ones an import statement ends on.
InsertedAfterLastOf(ends) ==
    IF ends # {}
    THEN text = join(InsertLine(split(prev), Largest(ends), ToastLine))
    ELSE text = prev

\* C6 as stated: with no toast import present, the new import line goes in
\* right after the last line of the shape "import <anything>;", and when no
\* line has that shape the content is returned unchanged.
C6_AfterLastImportLine ==
    (AfterImport /\ ~In(ImportBraceToast, prev) /\ ~In(ImportToast, prev))
        => InsertedAfterLastOf({i \in 1..Len(split(prev)) : LineMatches(split(prev)[i])})

\* Every character of the line from index p on is white space.
BlankFrom(line, p) == \A k \in p..Len(line) : line[k] \in Whitespace

\* Line i ends a match of the import pattern: it has the shape itself, or
\* it ends with ";" and the lines before it, back to one that holds
\* "import" and white space only, are blank: the white space after "import"
\* may run over line breaks.
EndsImport(ls, i) ==
    \/ LineMatches(ls[i])
    \/ /\ Len(ls[i]) >= 1
       /\ ls[i][Len(ls[i])] = ";"
       /\ \E j \in 1..(i - 1) :
             /\ StartsWithAt(ls[j], 1, ImportWord)
             /\ BlankFrom(ls[j], Len(ImportWord) + 1)
             /\ \A k \in (j + 1)..(i - 1) : BlankFrom(ls[k], 1)

\* C6 amended: with no toast import present, the new import line goes in
\* right after the last line on which a match of the import pattern ends,
\* where a match may start on an earlier line; with no match the content
\* is returned unchanged.
C6_AfterLastImportMatch ==
    (AfterImport /\ ~In(ImportBraceToast, prev) /\ ~In(ImportToast, prev))
        => InsertedAfterLastOf({i \in 1..Len(split(prev)) : EndsImport(split(prev), i)})

\* Two lines end an import and the new line is in after the second.
C6_Witness ==
    /\ AfterImport
    /\ ~In(ImportBraceToast, prev)
    /\ ~In(ImportToast, prev)
    /\ Cardinality({i \in 1..Len(split(prev)) : EndsImport(split(prev), i)}) >= 2
    /\ text # prev
    /\ split(text)[Len(split(text))] = ToastLine

\* Number of occurrences of t in s.
RECURSIVE Count(_, _)
Count(s, t) ==
    LET p == Find(s, t, 1) IN
    IF p = 0 THEN 0 ELSE 1 + Count(SubSeq(s, p + 1, Len(s)), t)

\* The last applications were add_toast_import, then any number of
\* replace_alerts, then add_toast_import.
ImportAgain ==
    /\ Len(ops) >= 2
    /\ ops[Len(ops)] = "add_toast_import"
    /\ \E k \in 1..(Len(ops) - 1) :
          /\ ops[k] = "add_toast_import"
          /\ \A m \in (k + 1)..(Len(ops) - 1) : ops[m] = "replace_alerts"

\* C10: add_toast_import applied again, directly or after replace_alerts,
\* changes nothing, and no sequence of transforms leaves more than one
\* inserted toast import line.
C10_ImportOnce ==
    /\ ImportAgain => text = prev
    /\ Count(text, ToastLine) <= 1

\* The import was inserted, a call was rewritten, and the second
\* add_toast_import found the text complete.
C10_Witness ==
    /\ ops = <<"add_toast_import", "replace_alerts", "add_toast_import">>
    /\ ~In(ToastLine, input)
    /\ In(ToastLine, text)
    /\ In(AlertOpen, input)
    /\ In(ToastInfo, text)
    /\ text = prev

\* ---------------------------------------------------- claims, batch level
PerEntry(r) == r.kind \in {"processed", "error", "not_found"}
FromCall(r) == r.kind \in {"processed", "error"}

\* The printed lines that report on a list entry, in the order printed.
Entries == SelectSeq(log, PerEntry)
\* Those of them that process_file printed.
CallLines == SelectSeq(log, FromCall)

ReturnedTrue == {i \in 1..Len(calls) : calls[i].ret}

\* C7: the counter is the number of calls of process_file that returned
\* True, between 0 and the list length; an entry is reported "not found"
\* exactly when its path does not exist, and then it is not passed to
\* process_file and not counted; the summary prints the counter and the
\* list length.
C7_SuccessCount ==
    /\ success_count = Cardinality(ReturnedTrue)
    /\ 0 <= success_count
    /\ success_count <= Len(files_to_update)
    /\ Len(Entries) <= Len(files_to_update)
    /\ \A k \in 1..Len(Entries) :
          /\ Entries[k].path = files_to_update[k]
          /\ (Entries[k].kind = "not_found") <=> ~fs[files_to_update[k]].exists
    /\ Len(calls) = Len(CallLines)
    /\ \A i \in 1..Len(calls) :
          /\ calls[i].path = CallLines[i].path
          /\ calls[i].ret <=> (CallLines[i].kind = "processed")
    /\ pc = "done" =>
          /\ Len(Entries) = Len(files_to_update)
          /\ log[Len(log)].kind = "completed"
          /\ log[Len(log)].X = Cardinality(ReturnedTrue)
          /\ log[Len(log)].N = Len(files_to_update)

\* A finished run over one missing entry and one processed entry, with the
\* summary 1/2.
C7_Witness ==
    /\ pc = "done"
    /\ Len(files_to_update) = 2
    /\ \E k \in 1..2 : Entries[k].kind = "not_found"
    /\ \E k \in 1..2 : Entries[k].kind = "processed"
    /\ log[Len(log)].X = 1
    /\ log[Len(log)].N = 2

InCall == pc \in {"read", "add_toast_import", "replace_alerts", "write"}

\* C8: while process_file reads and transforms, the file is as it was when
\* the call began; a call that failed in the read or in a transform
\* returned False, printed the error and left the file as it was; a call
\* that returned True left replace_alerts(add_toast_import(original)).
C8_WriteLast ==
    /\ InCall => fs[filepath] = orig
    /\ Len(calls) > 0 =>
          LET c == calls[Len(calls)]
              line == CallLines[Len(CallLines)]
          IN /\ c.why \in {"read", "transform"} =>
                   /\ ~c.ret
                   /\ fs[c.path] = c.before
                   /\ line = [kind |-> "error", path |-> c.path, why |-> c.why]
             /\ c.ret =>
                   /\ fs[c.path].exists
                   /\ fs[c.path].data = replace_alerts(add_toast_import(c.before.data))

\* A call failed in a transform and left the file, then a call on a file
\* that both transforms change returned True.
C8_Witness ==
    /\ Len(calls) = 2
    /\ calls[1].why = "transform"
    /\ calls[2].ret
    /\ In(AlertOpen, calls[2].before.data)
    /\ In(ToastLine, fs[calls[2].path].data)
    /\ ~In(ToastLine, calls[2].before.data)
    /\ ~In(AlertOpen, fs[calls[2].path].data)

\* Every entry before idx has been attempted once, in list order, and the
\* entry a call is working on is the next one.
C9_InOrder ==
    /\ Len(Entries) = idx - 1
    /\ \A k \in 1..Len(Entries) : Entries[k].path = files_to_update[k]
    /\ InCall => idx <= Len(files_to_update)
    /\ pc \in {"main", "for", "done"} \/ InCall

C9_Finished ==
    /\ pc = "done"
    /\ Len(Entries) = Len(files_to_update)
    /\ log[Len(log)].kind = "completed"

\* C9: whatever happens to each entry, the entries are attempted once each
\* in list order, one at a time, and the run ends with the summary line.
C9_EveryEntryOnce == []C9_InOrder /\ <>C9_Finished

\* A finished run whose first entry failed and whose second was processed.
C9_Witness ==
    /\ pc = "done"
    /\ Len(Entries) = 2
    /\ Entries[1].kind = "error"
    /\ Entries[2].kind = "processed"

====
